---- MODULE Spec2Model ----
(***************************************************************************)
(* State/persistence layer of the todo application:                        *)
(*   - the storage adapter (isValidTodos, loadTodos, saveTodos),           *)
(*   - the toast provider (showToast, dismissToast, auto-dismiss timers),  *)
(*   - the todo provider (hydration, persist effect, the four mutators).   *)
(*                                                                         *)
(* JavaScript values are records of one shape [t, s, n] (type tag, string  *)
(* payload, number payload).  The text stored under the key 'todos' is     *)
(* modelled by the JSON document it denotes, or as empty / unparsable      *)
(* text.                                                                   *)
(***************************************************************************)
EXTENDS Integers, Sequences, FiniteSets, TLC

(***************************************************************************)
(* Bounds of the model.                                                    *)
(***************************************************************************)
MaxLen == 2        \* longest sequence handed to the adapter directly
MaxCalls == 2      \* adapter calls in one run of the adapter harness
MaxOps == 2        \* mutator calls over the life of the model
MaxBatch == 2      \* mutator calls inside one synchronous turn
MaxTicks == 1      \* advances of the clock (Date.now())
MaxReloads == 1    \* page reloads within the session
MaxShows == 3      \* calls of showToast when the toast provider runs on its own

(***************************************************************************)
(* JavaScript values.                                                      *)
(***************************************************************************)
V(t, s, n) == [t |-> t, s |-> s, n |-> n]

Undefined == V("undefined", "", 0)
Null == V("null", "", 0)
Str(x) == V("string", x, 0)
Num(k) == V("number", "", k)
Bool(b) == V("boolean", IF b THEN "true" ELSE "false", 0)
PlainObject == V("object", "", 0)
\* A Date with a finite time value, and the Date whose time value is NaN.
DateOf(ms) == V("date", "", ms)
InvalidDate == V("date", "NaN", 0)
\* Marks a property that an object literal does not have at all.
Absent == V("absent", "", 0)

IsValidDate(v) == v.t = "date" /\ v.s = ""

\* typeof v
TypeOf(v) ==
  CASE v.t = "undefined" -> "undefined"
    [] v.t = "string" -> "string"
    [] v.t = "number" -> "number"
    [] v.t = "boolean" -> "boolean"
    [] OTHER -> "object"

\* v instanceof Date
InstanceOfDate(v) == v.t = "date"

FieldNames == {"id", "title", "description", "completed", "createdAt", "extra"}

\* An array element: an object with properties (a missing property reads as
\* undefined), or a primitive.
Obj(id, title, description, completed, createdAt, extra) ==
  [obj |-> TRUE, v |-> Undefined,
   f |-> [id |-> id, title |-> title, description |-> description,
          completed |-> completed, createdAt |-> createdAt, extra |-> extra]]

Prim(v) ==
  [obj |-> FALSE, v |-> v,
   f |-> [id |-> Undefined, title |-> Undefined, description |-> Undefined,
          completed |-> Undefined, createdAt |-> Undefined, extra |-> Undefined]]

\* Any value handed to isValidTodos: an array of elements, or something else.
Arr(items) == [arr |-> TRUE, items |-> items, v |-> Undefined]
NonArr(v) == [arr |-> FALSE, items |-> <<>>, v |-> v]

(***************************************************************************)
(* The clock, and Date <-> ISO-8601 text.                                  *)
(***************************************************************************)
\* duration = 5000 (default parameter of showToast)
DefaultDuration == 5000

\* The clock advances by one millisecond or by a toast's duration.
TickSteps == {1, DefaultDuration}

\* Every value the clock can take.
Instants ==
  {a + DefaultDuration * b : a \in 0..MaxTicks, b \in 0..MaxTicks}

Pad2(k) == IF k < 10 THEN "0" \o ToString(k) ELSE ToString(k)
Pad3(k) == IF k < 10 THEN "00" \o ToString(k)
           ELSE IF k < 100 THEN "0" \o ToString(k) ELSE ToString(k)

\* Date.prototype.toISOString, for instants within the first hour of the epoch.
ToISOString(ms) ==
  "1970-01-01T00:" \o Pad2(ms \div 60000) \o ":" \o Pad2((ms % 60000) \div 1000)
    \o "." \o Pad3(ms % 1000) \o "Z"

\* new Date(text): the instant the text denotes (full ISO form, or the
\* date-only form, which means midnight UTC), or else an Invalid Date.
NewDateFromString(text) ==
  IF \E ms \in Instants : ToISOString(ms) = text
  THEN DateOf(CHOOSE ms \in Instants : ToISOString(ms) = text)
  ELSE IF text = "1970-01-01" THEN DateOf(0)
  ELSE InvalidDate

(***************************************************************************)
(* JSON.                                                                   *)
(***************************************************************************)
\* What JSON.stringify writes for a property value; Undefined = the property
\* is left out.  A Date is written through toJSON: its ISO text, or null
\* when its time value is NaN.
JsonOfValue(v) ==
  CASE v.t = "date" -> IF IsValidDate(v) THEN Str(ToISOString(v.n)) ELSE Null
    [] v.t = "absent" -> Undefined
    [] OTHER -> v

\* What JSON.stringify writes for an array element: an object with its
\* properties converted; undefined inside an array is written as null.
JsonOfItem(item) ==
  IF item.obj
  THEN [item EXCEPT !.f = [k \in FieldNames |-> JsonOfValue(item.f[k])]]
  ELSE IF item.v.t = "undefined" THEN Prim(Null) ELSE Prim(JsonOfValue(item.v))

\* JSON.stringify(todos): the document the serialized text denotes.
JSONStringify(todos) == Arr([i \in 1..Len(todos) |-> JsonOfItem(todos[i])])

\* The item stored under a key of sessionStorage.
NoItem == [kind |-> "absent", doc |-> NonArr(Undefined)]
EmptyText == [kind |-> "empty", doc |-> NonArr(Undefined)]
CorruptText == [kind |-> "corrupt", doc |-> NonArr(Undefined)]
JsonText(doc) == [kind |-> "json", doc |-> doc]

\* JSON.parse(text) throws a SyntaxError unless the text is a JSON document.
JSONParseThrows(text) == text.kind # "json"
JSONParse(text) == text.doc

(***************************************************************************)
(* The storage adapter.                                                    *)
(***************************************************************************)
\* The test applied to each element by isValidTodos.
IsValidItem(item) ==
  /\ (IF item.obj THEN "object" ELSE TypeOf(item.v)) = "object"
  /\ (item.obj \/ item.v.t # "null")
  /\ TypeOf(item.f.id) = "string"
  /\ TypeOf(item.f.title) = "string"
  /\ TypeOf(item.f.description) = "string"
  /\ TypeOf(item.f.completed) = "boolean"
  /\ (InstanceOfDate(item.f.createdAt) \/ TypeOf(item.f.createdAt) = "string")

\* Mutant of isValidTodos: `some` in place of `every`.
isValidTodosSome(data) ==
  IF ~data.arr THEN FALSE
  ELSE \E i \in 1..Len(data.items) : IsValidItem(data.items[i])

isValidTodos(data) ==
  IF ~data.arr THEN FALSE
  ELSE \A i \in 1..Len(data.items) : IsValidItem(data.items[i])

\* createdAt strings are converted back to Date objects.
ReviveTodo(todo) ==
  [todo EXCEPT !.f.createdAt =
     IF TypeOf(@) = "string" THEN NewDateFromString(@.s) ELSE @]

\* window.sessionStorage.removeItem(STORAGE_KEY); `fails` = the store throws.
RemoveItem(item, fails) ==
  [item |-> IF fails THEN item ELSE NoItem, threw |-> fails]

\* Mutant of LoadTry: the validation branch returns without clearing the key.
LoadTryKeepsKey(item, getFails, removeFails) ==
  IF getFails THEN [todos |-> <<>>, item |-> item, threw |-> TRUE]
  ELSE IF item.kind \in {"absent", "empty"}
    THEN [todos |-> <<>>, item |-> item, threw |-> FALSE]
  ELSE IF JSONParseThrows(item)
    THEN [todos |-> <<>>, item |-> item, threw |-> TRUE]
  ELSE IF ~isValidTodos(JSONParse(item))
    THEN [todos |-> <<>>, item |-> item, threw |-> FALSE]
  ELSE [todos |-> [i \in 1..Len(JSONParse(item).items) |->
                     ReviveTodo(JSONParse(item).items[i])],
        item |-> item, threw |-> FALSE]

\* The try block of loadTodos on the stored `item`.  getFails: getItem
\* throws; removeFails: the removeItem of the validation branch throws.
\* Gives the sequence returned, the item stored afterwards and whether an
\* error left the block.
LoadTry(item, getFails, removeFails) ==
  IF getFails THEN [todos |-> <<>>, item |-> item, threw |-> TRUE]
  ELSE IF item.kind \in {"absent", "empty"}
    THEN [todos |-> <<>>, item |-> item, threw |-> FALSE]
  ELSE IF JSONParseThrows(item)
    THEN [todos |-> <<>>, item |-> item, threw |-> TRUE]
  ELSE IF ~isValidTodos(JSONParse(item))
    THEN [todos |-> <<>>, item |-> RemoveItem(item, removeFails).item,
          threw |-> RemoveItem(item, removeFails).threw]
  ELSE [todos |-> [i \in 1..Len(JSONParse(item).items) |->
                     ReviveTodo(JSONParse(item).items[i])],
        item |-> item, threw |-> FALSE]

\* Mutant of LoadCatch: the cleanup is not guarded by a try of its own.
LoadCatchUnguarded(item, removeFails) ==
  [todos |-> <<>>, item |-> RemoveItem(item, removeFails).item,
   threw |-> RemoveItem(item, removeFails).threw]

\* The catch block of loadTodos: the cleanup sits in a try of its own whose
\* catch is empty.
LoadCatch(item, removeFails) ==
  [todos |-> <<>>, item |-> RemoveItem(item, removeFails).item, threw |-> FALSE]

\* loadTodos(); remove1Fails and remove2Fails are the outcomes of the first
\* and of the second call of removeItem.
loadTodos(item, getFails, remove1Fails, remove2Fails) ==
  IF LoadTry(item, getFails, remove1Fails).threw
  THEN LoadCatch(LoadTry(item, getFails, remove1Fails).item, remove2Fails)
  ELSE LoadTry(item, getFails, remove1Fails)

QuotaMessage == "Storage quota exceeded - your latest changes may not be saved."
GenericMessage == "Failed to save todos to storage."

\* What setItem can do: succeed, or throw a value with these properties.
SetOk == [throws |-> FALSE, isError |-> FALSE, name |-> ""]
Thrown(isError, name) == [throws |-> TRUE, isError |-> isError, name |-> name]
SetOutcomes ==
  {SetOk, Thrown(TRUE, "QuotaExceededError"), Thrown(TRUE, "Error"),
   Thrown(FALSE, "QuotaExceededError")}

\* error instanceof Error && error.name === 'QuotaExceededError'
IsQuotaError(e) == e.isError /\ e.name = "QuotaExceededError"

\* The result record; error = "" stands for a record without an error.
SaveResult(success, error) == [success |-> success, error |-> error]

\* Mutant of SaveCatch: every failure gets the generic message.
SaveCatchGeneric(e) == SaveResult(FALSE, GenericMessage)

\* The catch block of saveTodos.
SaveCatch(e) ==
  IF IsQuotaError(e) THEN SaveResult(FALSE, QuotaMessage)
  ELSE SaveResult(FALSE, GenericMessage)

\* The try block of saveTodos while `item` is stored and setItem behaves as
\* `outcome`.
SaveTry(todos, item, outcome) ==
  IF outcome.throws
  THEN [result |-> SaveResult(FALSE, ""), item |-> item, threw |-> TRUE]
  ELSE [result |-> SaveResult(TRUE, ""), item |-> JsonText(JSONStringify(todos)),
        threw |-> FALSE]

saveTodos(todos, item, outcome) ==
  IF SaveTry(todos, item, outcome).threw
  THEN [result |-> SaveCatch(outcome), item |-> item, threw |-> FALSE]
  ELSE SaveTry(todos, item, outcome)

(***************************************************************************)
(* State.                                                                  *)
(***************************************************************************)
VARIABLES
  store,        \* the item under the key 'todos' of sessionStorage
  pc,           \* "harness" | "unmounted" | "rendered" | "idle"
  call,         \* adapter harness: the last call of an adapter function
  prev,         \* adapter harness: the call before it
  calls,        \* adapter harness: number of calls made
  todos,        \* TodoProvider: the state `todos` of the current render
  todosRef,     \* identity of the array held by `todos`
  queued,       \* the value (and its identity) the next render will hold
  turnCalls,    \* mutator calls made in the current synchronous turn
  toasts,       \* ToastProvider: the state `toasts`
  timers,       \* pending setTimeout callbacks of showToast: [id, due]
  now,          \* Date.now()
  uuids,        \* number of identifiers uuidv4 has produced
  refs,         \* number of arrays allocated for `todos`
  ops,          \* mutator calls made so far
  ticks,        \* advances of the clock so far
  reloads,      \* page reloads so far
  turns,        \* turns committed since construction
  loadCalls,    \* calls of loadTodos since construction
  hydrated,     \* what loadTodos() returned to the render in progress
  saveCalls,    \* calls of saveTodos since construction
  lastSave,     \* argument and result of the last call of saveTodos
  lastOp        \* the last mutator call: name and arguments

harnessVars == <<call, prev, calls>>
reactVars == <<todos, todosRef, queued, turnCalls>>
toastVars == <<toasts, timers>>
countVars == <<uuids, refs, ops, ticks, reloads>>
logVars == <<turns, loadCalls, hydrated, saveCalls, lastSave, lastOp>>
providerVars == <<reactVars, toastVars, now, countVars, logVars>>

vars == <<store, pc, harnessVars, providerVars>>

(***************************************************************************)
(* Inputs.                                                                 *)
(***************************************************************************)
GoodTodo(id, createdAt) ==
  Obj(Str(id), Str("Test Todo"), Str(""), Bool(FALSE), createdAt, Undefined)

MissingFields ==
  Obj(Str("2"), Str("Invalid Todo"), Undefined, Undefined, Undefined, Undefined)

InvalidStructure ==
  Obj(Undefined, Undefined, Undefined, Undefined, Undefined, Str("structure"))

\* Elements of the sequences handed to the adapter: well-formed records with
\* each kind of createdAt and with a further property, and malformed ones.
SampleItems ==
  {GoodTodo("1", DateOf(0)), GoodTodo("1", InvalidDate),
   GoodTodo("1", Str(ToISOString(1))), GoodTodo("1", Str("garbage")),
   Obj(Str("2"), Str("t"), Str("d"), Bool(TRUE), DateOf(1), Str("x")),
   MissingFields,
   Obj(Num(123), Str("Invalid Todo"), Str("Description"), Bool(FALSE),
       DateOf(0), Undefined),
   Prim(Null)}

SeqsUpTo(S, n) == UNION {[1..k -> S] : k \in 0..n}

SampleSeqs == SeqsUpTo(SampleItems, MaxLen)

SampleData ==
  {Arr(q) : q \in SampleSeqs}
  \cup {NonArr(Null), NonArr(Undefined), NonArr(Str("string")), NonArr(Num(123)),
        NonArr(PlainObject)}

\* What the key can hold when the application starts: nothing, text that
\* is not JSON, JSON of the wrong shape, two records, and two records that
\* share an id and differ in `completed` (what the provider itself writes
\* after toggleTodoCompletion("1") and editTodo("2", {id: "1"})).
StoredItems ==
  {NoItem, CorruptText,
   JsonText(JSONStringify(<<InvalidStructure>>)),
   JsonText(JSONStringify(<<GoodTodo("1", DateOf(0)), GoodTodo("2", DateOf(1))>>)),
   JsonText(JSONStringify(<<Obj(Str("1"), Str("Test Todo"), Str(""), Bool(TRUE),
                                DateOf(0), Undefined),
                            GoodTodo("1", DateOf(1))>>))}

(***************************************************************************)
(* The adapter harness: the three exported functions called directly.      *)
(***************************************************************************)
NoCall ==
  [op |-> "none", arg |-> NonArr(Undefined), before |-> NoItem, after |-> NoItem,
   getFails |-> FALSE, remove1Fails |-> FALSE, remove2Fails |-> FALSE,
   outcome |-> SetOk, valid |-> FALSE, todos |-> <<>>,
   result |-> SaveResult(FALSE, ""), threw |-> FALSE]

\* What the key holds when the harness starts: nothing, text that is not
\* JSON, and JSON of each kind the validation tells apart.
HarnessItems ==
  {NoItem, EmptyText, CorruptText, JsonText(NonArr(PlainObject)),
   JsonText(JSONStringify(<<InvalidStructure>>)),
   JsonText(JSONStringify(<<GoodTodo("1", DateOf(0)), GoodTodo("2", DateOf(1))>>))}

NoOp ==
  [name |-> "none", id |-> "", title |-> "", description |-> "",
   updates |-> [k \in FieldNames |-> Absent]]

NoSave == [arg |-> <<>>, result |-> SaveResult(FALSE, "")]

\* The provider before it is constructed.
ProviderBlank ==
  /\ todos = <<>>
  /\ todosRef = 0
  /\ queued = [todos |-> <<>>, ref |-> 0]
  /\ turnCalls = 0
  /\ toasts = <<>>
  /\ timers = <<>>
  /\ now = 0
  /\ uuids = 0
  /\ refs = 0
  /\ ops = 0
  /\ ticks = 0
  /\ reloads = 0
  /\ turns = 0
  /\ loadCalls = 0
  /\ hydrated = <<>>
  /\ saveCalls = 0
  /\ lastSave = NoSave
  /\ lastOp = NoOp

InitHarness ==
  /\ store \in HarnessItems
  /\ pc = "harness"
  /\ call = NoCall
  /\ prev = NoCall
  /\ calls = 0
  /\ ProviderBlank

CallIsValidTodos ==
  /\ pc = "harness"
  /\ calls = 0
  /\ \E data \in SampleData :
       call' = [NoCall EXCEPT !.op = "isValidTodos", !.arg = data,
                              !.before = store, !.after = store,
                              !.valid = isValidTodos(data)]
  /\ prev' = call
  /\ calls' = calls + 1
  /\ UNCHANGED <<store, pc, providerVars>>

CallSaveTodos ==
  /\ pc = "harness"
  /\ calls = 0
  /\ \E S \in SampleSeqs, outcome \in SetOutcomes :
       LET r == saveTodos(S, store, outcome) IN
         /\ store' = r.item
         /\ call' = [NoCall EXCEPT !.op = "saveTodos", !.arg = Arr(S),
                                   !.before = store, !.after = r.item,
                                   !.outcome = outcome, !.result = r.result,
                                   !.threw = r.threw]
  /\ prev' = call
  /\ calls' = calls + 1
  /\ UNCHANGED <<pc, providerVars>>

CallLoadTodos ==
  /\ pc = "harness"
  /\ calls < MaxCalls
  /\ \E getFails \in BOOLEAN, remove1Fails \in BOOLEAN, remove2Fails \in BOOLEAN :
       LET r == loadTodos(store, getFails, remove1Fails, remove2Fails) IN
         /\ store' = r.item
         /\ call' = [NoCall EXCEPT !.op = "loadTodos", !.before = store,
                                   !.after = r.item, !.getFails = getFails,
                                   !.remove1Fails = remove1Fails,
                                   !.remove2Fails = remove2Fails,
                                   !.todos = r.todos, !.threw = r.threw]
  /\ prev' = call
  /\ calls' = calls + 1
  /\ UNCHANGED <<pc, providerVars>>

NextHarness == CallIsValidTodos \/ CallSaveTodos \/ CallLoadTodos

HarnessSpec == InitHarness /\ [][NextHarness]_vars

(***************************************************************************)
(* The toast provider.                                                     *)
(***************************************************************************)
ToastMessage(id, message, type, duration) ==
  [id |-> id, message |-> message, type |-> type, duration |-> duration]

\* Mutant of WithoutToast: the oldest toast is removed, whatever its id.
WithoutOldest(list, id) == IF list = <<>> THEN list ELSE Tail(list)

\* prev.filter(toast => toast.id !== id)
WithoutToast(list, id) == SelectSeq(list, LAMBDA toast : toast.id # id)

\* Mutant of showToast: setTimeout is called without the delay.
showToastNoDelay(list, pending, ms, message, type, duration) ==
  [toasts |-> Append(list, ToastMessage(ToString(ms), message, type, duration)),
   timers |-> Append(pending, [id |-> ToString(ms), due |-> ms])]

\* showToast(message, type, duration) at time `ms`: the toast list and the
\* timer list afterwards.  The id is Date.now().toString().
showToast(list, pending, ms, message, type, duration) ==
  [toasts |-> Append(list, ToastMessage(ToString(ms), message, type, duration)),
   timers |-> Append(pending, [id |-> ToString(ms), due |-> ms + duration])]

(***************************************************************************)
(* The todo provider.                                                      *)
(***************************************************************************)
\* Mutant of uuidv4: the identifier is taken from the clock, as showToast
\* takes its own.
uuidFromClock(k) == "uuid-" \o ToString(now)

\* uuidv4(): the k-th identifier it produces; no two calls give the same.
uuidv4(k) == "uuid-" \o ToString(k)

\* Mutant of InitialTodos: the state starts empty whatever is stored.
InitialTodosEmpty(loaded) == <<>>

\* useState initializer: the initial state is what loadTodos() returns.
InitialTodos(loaded) == loaded

\* Mutant of addTodo: the new record is put in front, [newTodo, ...todos].
addTodoFirst(list, title, description, id, ms) ==
  <<Obj(Str(id), Str(title), Str(description), Bool(FALSE), DateOf(ms), Undefined)>>
    \o list

\* [...todos, newTodo] of addTodo.
addTodo(list, title, description, id, ms) ==
  Append(list, Obj(Str(id), Str(title), Str(description), Bool(FALSE),
                   DateOf(ms), Undefined))

\* Mutant of Merge: the record is built from the updates alone, the spread
\* of the existing record left out.
MergeUpdatesOnly(todo, updates) ==
  [todo EXCEPT !.f = [k \in FieldNames |->
                        IF updates[k] = Absent THEN Undefined ELSE updates[k]]]

\* { ...todo, ...updates }
Merge(todo, updates) ==
  [todo EXCEPT !.f = [k \in FieldNames |->
                        IF updates[k] = Absent THEN todo.f[k] ELSE updates[k]]]

\* todos.map(todo => (todo.id === id ? { ...todo, ...updates } : todo))
editTodo(list, id, updates) ==
  [i \in 1..Len(list) |->
     IF list[i].f.id = Str(id) THEN Merge(list[i], updates) ELSE list[i]]

\* !value
Truthy(v) ==
  CASE v.t \in {"undefined", "null", "absent"} -> FALSE
    [] v.t = "boolean" -> v.s = "true"
    [] v.t = "string" -> v.s # ""
    [] v.t = "number" -> v.n # 0
    [] OTHER -> TRUE

\* Mutant of toggleTodoCompletion: `completed` is set, not negated.
toggleTodoCompletionSets(list, id) ==
  [i \in 1..Len(list) |->
     IF list[i].f.id = Str(id)
     THEN [list[i] EXCEPT !.f.completed = Bool(TRUE)]
     ELSE list[i]]

\* todos.map(todo => (todo.id === id ? { ...todo, completed: !todo.completed } : todo))
toggleTodoCompletion(list, id) ==
  [i \in 1..Len(list) |->
     IF list[i].f.id = Str(id)
     THEN [list[i] EXCEPT !.f.completed = Bool(~Truthy(@))]
     ELSE list[i]]

\* todos.filter(todo => todo.id !== id)
deleteTodo(list, id) == SelectSeq(list, LAMBDA todo : todo.f.id # Str(id))

\* Mutant of NewArrayRef: the mutator hands setTodos the array it was given.
SameArrayRef(oldRef, fresh) == oldRef

\* map and filter return a new array: the identity of the result.
NewArrayRef(oldRef, fresh) == fresh

\* The persist effect runs after a render whose `todos` is not the array
\* the previous render had (showToast never changes: useCallback(..., [])).
DepsChanged(oldRef, newRef) == oldRef # newRef

\* Mutant of PersistEffect: a failed save is tried once more.
PersistEffectRetry(list, outcome) ==
  LET r == saveTodos(list, store, outcome) IN
    /\ store' = r.item
    /\ saveCalls' = IF r.result.success THEN saveCalls + 1 ELSE saveCalls + 2
    /\ lastSave' = [arg |-> list, result |-> r.result]
    /\ IF ~r.result.success /\ r.result.error # ""
       THEN LET t == showToast(toasts, timers, now, r.result.error, "warning",
                               DefaultDuration) IN
              /\ toasts' = t.toasts
              /\ timers' = t.timers
       ELSE UNCHANGED toastVars

\* Mutant of PersistEffect: showToast is called without a severity, which
\* then defaults to 'info'.
PersistEffectInfo(list, outcome) ==
  LET r == saveTodos(list, store, outcome) IN
    /\ store' = r.item
    /\ saveCalls' = saveCalls + 1
    /\ lastSave' = [arg |-> list, result |-> r.result]
    /\ IF ~r.result.success /\ r.result.error # ""
       THEN LET t == showToast(toasts, timers, now, r.result.error, "info",
                               DefaultDuration) IN
              /\ toasts' = t.toasts
              /\ timers' = t.timers
       ELSE UNCHANGED toastVars

\* The body of the persist effect on the collection `list`: saveTodos, and
\* showToast(result.error, 'warning') when it reports a failure.
PersistEffect(list, outcome) ==
  LET r == saveTodos(list, store, outcome) IN
    /\ store' = r.item
    /\ saveCalls' = saveCalls + 1
    /\ lastSave' = [arg |-> list, result |-> r.result]
    /\ IF ~r.result.success /\ r.result.error # ""
       THEN LET t == showToast(toasts, timers, now, r.result.error, "warning",
                               DefaultDuration) IN
              /\ toasts' = t.toasts
              /\ timers' = t.timers
       ELSE UNCHANGED toastVars

\* What callers pass to the mutators.
NewTitle == "Test Todo"
NewDescription == "Test Description"
NoSuchId == "missing"

KnownIds(list) ==
  {list[i].f.id.s : i \in {j \in 1..Len(list) : list[j].f.id.t = "string"}}

TargetIds(list) == KnownIds(list) \cup {NoSuchId}

Updates(id, title, createdAt) ==
  [id |-> id, title |-> title, description |-> Absent, completed |-> Absent,
   createdAt |-> createdAt, extra |-> Absent]

\* The `updates: Partial<Todo>` handed to editTodo: a new title, another
\* id, a createdAt Date without a time value.
EditUpdates ==
  {Updates(Absent, Str("Edited"), Absent),
   Updates(Str("1"), Absent, Absent),
   Updates(Absent, Absent, InvalidDate)}

InitProvider ==
  /\ store \in StoredItems
  /\ pc = "unmounted"
  /\ call = NoCall
  /\ prev = NoCall
  /\ calls = 0
  /\ ProviderBlank

\* Construction, first render: the useState initializer calls loadTodos().
Hydrate ==
  /\ pc = "unmounted"
  /\ \E getFails \in BOOLEAN, remove1Fails \in BOOLEAN, remove2Fails \in BOOLEAN :
       LET r == loadTodos(store, getFails, remove1Fails, remove2Fails) IN
         /\ store' = r.item
         /\ todos' = InitialTodos(r.todos)
         /\ queued' = [todos |-> InitialTodos(r.todos), ref |-> refs + 1]
         /\ loadCalls' = loadCalls + 1
         /\ hydrated' = r.todos
  /\ todosRef' = refs + 1
  /\ refs' = refs + 1
  /\ pc' = "rendered"
  /\ UNCHANGED <<harnessVars, turnCalls, toastVars, now, uuids, ops, ticks,
                 reloads, turns, saveCalls, lastSave, lastOp>>

\* Mutant of MountEffect: the persist effect skips the first render.
MountEffectSkipped ==
  /\ pc = "rendered"
  /\ pc' = "idle"
  /\ hydrated' = <<>>
  /\ UNCHANGED <<store, harnessVars, reactVars, toastVars, now, countVars, turns,
                 loadCalls, saveCalls, lastSave, lastOp>>

\* Construction, after the first render: the persist effect runs on mount.
MountEffect ==
  /\ pc = "rendered"
  /\ \E outcome \in SetOutcomes : PersistEffect(todos, outcome)
  /\ pc' = "idle"
  /\ hydrated' = <<>>
  /\ UNCHANGED <<harnessVars, reactVars, now, countVars, turns, loadCalls, lastOp>>

\* A mutator called from an event handler: setTodos(value) queues the value
\* computed from the `todos` of the current render.
Queue(value, op) ==
  /\ queued' = [todos |-> value, ref |-> NewArrayRef(todosRef, refs + 1)]
  /\ refs' = refs + 1
  /\ turnCalls' = turnCalls + 1
  /\ ops' = ops + 1
  /\ lastOp' = op
  /\ UNCHANGED <<store, pc, harnessVars, todos, todosRef, toastVars, now, ticks,
                 reloads, turns, loadCalls, hydrated, saveCalls, lastSave>>

CanCall == pc = "idle" /\ ops < MaxOps /\ turnCalls < MaxBatch

AddTodo ==
  /\ CanCall
  /\ Queue(addTodo(todos, NewTitle, NewDescription, uuidv4(uuids + 1), now),
           [NoOp EXCEPT !.name = "addTodo", !.title = NewTitle,
                        !.description = NewDescription])
  /\ uuids' = uuids + 1

EditTodo ==
  /\ CanCall
  /\ \E id \in TargetIds(todos), updates \in EditUpdates :
       Queue(editTodo(todos, id, updates),
             [NoOp EXCEPT !.name = "editTodo", !.id = id, !.updates = updates])
  /\ UNCHANGED uuids

ToggleTodoCompletion ==
  /\ CanCall
  /\ \E id \in TargetIds(todos) :
       Queue(toggleTodoCompletion(todos, id),
             [NoOp EXCEPT !.name = "toggleTodoCompletion", !.id = id])
  /\ UNCHANGED uuids

DeleteTodo ==
  /\ CanCall
  /\ \E id \in TargetIds(todos) :
       Queue(deleteTodo(todos, id), [NoOp EXCEPT !.name = "deleteTodo", !.id = id])
  /\ UNCHANGED uuids

\* End of the turn: the provider renders with the queued value, then the
\* persist effect runs if its dependencies changed.
Commit ==
  /\ pc = "idle"
  /\ turnCalls > 0
  /\ todos' = queued.todos
  /\ todosRef' = queued.ref
  /\ turnCalls' = 0
  /\ turns' = turns + 1
  /\ IF DepsChanged(todosRef, queued.ref)
     THEN \E outcome \in SetOutcomes : PersistEffect(queued.todos, outcome)
     ELSE UNCHANGED <<store, saveCalls, lastSave, toastVars>>
  /\ lastOp' = [NoOp EXCEPT !.name = lastOp.name, !.id = lastOp.id]
  /\ UNCHANGED <<pc, harnessVars, queued, now, countVars, loadCalls, hydrated>>

\* Time passes between turns.  The clock is read by showToast and by
\* addTodo only; its advance is followed while a timer is pending.
Tick ==
  /\ pc = "idle"
  /\ turnCalls = 0
  /\ ticks < MaxTicks
  /\ timers # <<>>
  /\ \E d \in TickSteps : now' = now + d
  /\ ticks' = ticks + 1
  /\ UNCHANGED <<store, pc, harnessVars, reactVars, toastVars, uuids, refs, ops,
                 reloads, logVars>>

RemoveAt(q, i) == [j \in 1..(Len(q) - 1) |-> IF j < i THEN q[j] ELSE q[j + 1]]

\* A timer set by showToast fires: setToasts(prev => prev.filter(...)).
TimerFires ==
  /\ pc = "idle"
  /\ turnCalls = 0
  /\ \E i \in 1..Len(timers) :
       /\ timers[i].due <= now
       /\ toasts' = WithoutToast(toasts, timers[i].id)
       /\ timers' = RemoveAt(timers, i)
  /\ UNCHANGED <<store, pc, harnessVars, reactVars, now, countVars, logVars>>

\* The close button of a displayed toast: dismissToast(toast.id).
DismissToast ==
  /\ pc = "idle"
  /\ turnCalls = 0
  /\ \E i \in 1..Len(toasts) : toasts' = WithoutToast(toasts, toasts[i].id)
  /\ UNCHANGED <<store, pc, harnessVars, reactVars, timers, now, countVars, logVars>>

\* The page is reloaded: memory and timers are gone, sessionStorage stays.
Reload ==
  /\ pc = "idle"
  /\ turnCalls = 0
  /\ reloads < MaxReloads
  /\ pc' = "unmounted"
  /\ todos' = <<>>
  /\ todosRef' = 0
  /\ queued' = [todos |-> <<>>, ref |-> 0]
  /\ toasts' = <<>>
  /\ timers' = <<>>
  /\ reloads' = reloads + 1
  /\ turns' = 0
  /\ loadCalls' = 0
  /\ hydrated' = <<>>
  /\ saveCalls' = 0
  /\ lastSave' = NoSave
  /\ lastOp' = NoOp
  /\ UNCHANGED <<store, harnessVars, turnCalls, now, uuids, refs, ops, ticks>>

Next ==
  \/ Hydrate
  \/ MountEffect
  \/ AddTodo
  \/ EditTodo
  \/ ToggleTodoCompletion
  \/ DeleteTodo
  \/ Commit
  \/ Tick
  \/ TimerFires
  \/ DismissToast
  \/ Reload

Spec == InitProvider /\ [][Next]_vars

(***************************************************************************)
(* The toast provider on its own: showToast called as the todo provider    *)
(* calls it, dismissToast called with an id, timers, and the clock.        *)
(***************************************************************************)
\* The record of a call of the toast provider, or of a timer callback.
ToastCall(op, id) == [NoCall EXCEPT !.op = op, !.arg = NonArr(Str(id))]

\* The ids showToast has handed out that a toast or a pending timer holds.
IssuedIds ==
  {toasts[i].id : i \in 1..Len(toasts)} \cup {timers[i].id : i \in 1..Len(timers)}

InitToast ==
  /\ store = NoItem
  /\ pc = "toasts"
  /\ call = NoCall
  /\ prev = NoCall
  /\ calls = 0
  /\ ProviderBlank

\* showToast(result.error, 'warning'): no duration is passed.
CallShowToast ==
  /\ pc = "toasts"
  /\ calls < MaxShows
  /\ \E message \in {QuotaMessage, GenericMessage} :
       LET t == showToast(toasts, timers, now, message, "warning", DefaultDuration) IN
         /\ toasts' = t.toasts
         /\ timers' = t.timers
  /\ call' = ToastCall("showToast", ToString(now))
  /\ calls' = calls + 1
  /\ UNCHANGED <<store, pc, prev, reactVars, now, countVars, logVars>>

\* dismissToast(id), with the id of an active toast or of one that has been
\* removed.
CallDismissToast ==
  /\ pc = "toasts"
  /\ \E id \in IssuedIds :
       /\ toasts' = WithoutToast(toasts, id)
       /\ call' = ToastCall("dismissToast", id)
  /\ UNCHANGED <<store, pc, prev, calls, reactVars, timers, now, countVars, logVars>>

\* The callback of a setTimeout of showToast runs, its delay having passed.
TimerExpires ==
  /\ pc = "toasts"
  /\ \E i \in 1..Len(timers) :
       /\ timers[i].due <= now
       /\ toasts' = WithoutToast(toasts, timers[i].id)
       /\ timers' = RemoveAt(timers, i)
       /\ call' = ToastCall("timer", timers[i].id)
  /\ UNCHANGED <<store, pc, prev, calls, reactVars, now, countVars, logVars>>

\* Time passes while a timer is pending and none is due: by a millisecond,
\* a bounded number of times, or by the delay of the timers.
ToastClock ==
  /\ pc = "toasts"
  /\ timers # <<>>
  /\ \A i \in 1..Len(timers) : timers[i].due > now
  /\ \E d \in TickSteps :
       /\ d = DefaultDuration \/ ticks < MaxTicks
       /\ now' = now + d
       /\ ticks' = IF d = DefaultDuration THEN ticks ELSE ticks + 1
  /\ UNCHANGED <<store, pc, harnessVars, reactVars, toastVars, uuids, refs, ops,
                 reloads, logVars>>

NextToast == CallShowToast \/ CallDismissToast \/ TimerExpires \/ ToastClock

\* Timers run when they are due and time does not stop.
ToastSpec ==
  /\ InitToast
  /\ [][NextToast]_vars
  /\ WF_vars(TimerExpires)
  /\ WF_vars(ToastClock)

(***************************************************************************)
(* Claims about the storage adapter (checked under HarnessSpec).           *)
(***************************************************************************)
\* The instant a createdAt of a saved record denotes: a Date as it is, a
\* string through new Date(string).
InstantOf(v) == IF v.t = "string" THEN NewDateFromString(v.s) ELSE v

\* `loaded` has the records of `saved`, in order, field by field, with every
\* createdAt a Date for the same instant.
SameTodos(saved, loaded) ==
  /\ Len(loaded) = Len(saved)
  /\ \A i \in 1..Len(saved) :
       /\ loaded[i].obj
       /\ \A k \in FieldNames \ {"createdAt"} : loaded[i].f[k] = saved[i].f[k]
       /\ InstanceOfDate(loaded[i].f.createdAt)
       /\ loaded[i].f.createdAt = InstantOf(saved[i].f.createdAt)

\* C1: round trip: a loadTodos() that follows a successful saveTodos(S), S
\* accepted by isValidTodos, returns the records of S in order, equal field
\* by field, each createdAt a Date for the same instant.
C1_RoundTrip ==
  (/\ call.op = "loadTodos"
   /\ ~call.getFails
   /\ prev.op = "saveTodos"
   /\ prev.result.success
   /\ isValidTodos(prev.arg))
  => SameTodos(prev.arg.items, call.todos)

\* The stored value is present but cannot be parsed or fails the shape
\* predicate.
Unusable(item) ==
  /\ item.kind # "absent"
  /\ (JSONParseThrows(item) \/ ~isValidTodos(JSONParse(item)))

\* C2 as stated: whenever the stored value is present but cannot be parsed
\* or fails the shape predicate, loadTodos() returns the empty sequence and,
\* the store's delete succeeding, the key is absent afterwards.
C2_Original ==
  (call.op = "loadTodos" /\ Unusable(call.before))
  => /\ call.todos = <<>>
     /\ (~call.remove1Fails /\ ~call.remove2Fails) => call.after = NoItem

\* The last removeItem that this call of loadTodos made succeeded.
DeleteSucceeded(c) ==
  IF c.getFails \/ JSONParseThrows(c.before)
  THEN ~c.remove2Fails
  ELSE ~c.remove1Fails \/ ~c.remove2Fails

\* C2 (amended): whenever the stored value is a non-empty text that cannot
\* be parsed or fails the shape predicate, loadTodos() returns the empty
\* sequence and the key is absent afterwards when the delete succeeds; a
\* stored empty text that is read is treated as no stored value: the empty
\* sequence is returned and the key is left as it is.
C2_Amended ==
  call.op = "loadTodos"
  => /\ (Unusable(call.before) /\ call.before.kind # "empty")
          => /\ call.todos = <<>>
             /\ DeleteSucceeded(call) => call.after = NoItem
     /\ (call.before.kind = "empty" /\ ~call.getFails)
          => /\ call.todos = <<>>
             /\ call.after = call.before

C2_Witness ==
  /\ call.op = "loadTodos"
  /\ call.before.kind = "json"
  /\ ~isValidTodos(call.before.doc)
  /\ call.remove1Fails
  /\ ~call.remove2Fails
  /\ call.after = NoItem

\* C3: neither loadTodos() nor saveTodos() lets an error out, whatever
\* getItem, setItem and removeItem do; loadTodos() returns the empty
\* sequence on any failure, the failure of the cleanup delete included.
C3_NoErrorEscapes ==
  /\ call.op = "saveTodos" => ~call.threw
  /\ call.op = "loadTodos"
       => /\ ~call.threw
          /\ (call.getFails \/ Unusable(call.before)) => call.todos = <<>>

C3_Witness ==
  /\ call.op = "loadTodos"
  /\ call.before.kind = "json"
  /\ ~isValidTodos(call.before.doc)
  /\ call.remove1Fails
  /\ call.remove2Fails
  /\ call.todos = <<>>
  /\ call.after = call.before

\* The quota signal: an Error named QuotaExceededError.
QuotaSignal(o) == o.throws /\ o.isError /\ o.name = "QuotaExceededError"

\* C4: saveTodos(S) returns {success: true} without an error when the write
\* succeeds, and the key then holds the serialization of the whole of S; the
\* quota message when the write fails with the quota signal; the generic
\* message for every other failure.  A failure carries a non-empty message,
\* a success none.
C4_SaveResult ==
  call.op = "saveTodos"
  => /\ ~call.outcome.throws
          => /\ call.result = SaveResult(TRUE, "")
             /\ call.after.kind = "json"
             /\ call.after.doc.arr
             /\ Len(call.after.doc.items) = Len(call.arg.items)
             /\ \A i \in 1..Len(call.arg.items) :
                  call.after.doc.items[i] = JsonOfItem(call.arg.items[i])
     /\ QuotaSignal(call.outcome)
          => call.result = SaveResult(FALSE, QuotaMessage)
     /\ (call.outcome.throws /\ ~QuotaSignal(call.outcome))
          => call.result = SaveResult(FALSE, GenericMessage)
     /\ call.result.success <=> call.result.error = ""
     /\ QuotaMessage # GenericMessage

C4_Witness ==
  /\ call.op = "saveTodos"
  /\ QuotaSignal(call.outcome)
  /\ Len(call.arg.items) = 2
  /\ call.result = SaveResult(FALSE, QuotaMessage)

\* A non-null record with id, title, description (strings), completed
\* (boolean) and createdAt (Date or string).
HasTodoFields(item) ==
  /\ item.obj
  /\ item.f.id.t = "string"
  /\ item.f.title.t = "string"
  /\ item.f.description.t = "string"
  /\ item.f.completed.t = "boolean"
  /\ item.f.createdAt.t \in {"date", "string"}

\* C5 as stated: isValidTodos(data) is true exactly when data is a sequence
\* whose every element is a record with exactly those five fields.
C5_Original ==
  call.op = "isValidTodos"
  => (call.valid <=>
        /\ call.arg.arr
        /\ \A i \in 1..Len(call.arg.items) :
             /\ HasTodoFields(call.arg.items[i])
             /\ call.arg.items[i].f.extra.t = "undefined")

\* C5 (amended): isValidTodos(data) is true exactly when data is a sequence
\* whose every element is a non-null record that has those five fields with
\* those types, whatever other fields it has; the empty sequence is valid,
\* a non-sequence is not, one invalid element invalidates the sequence.
C5_Amended ==
  call.op = "isValidTodos"
  => (call.valid <=>
        /\ call.arg.arr
        /\ \A i \in 1..Len(call.arg.items) : HasTodoFields(call.arg.items[i]))

C5_Witness ==
  /\ call.op = "isValidTodos"
  /\ call.arg.arr
  /\ Len(call.arg.items) = 2
  /\ HasTodoFields(call.arg.items[1])
  /\ call.arg.items[1].f.extra.t = "string"
  /\ ~HasTodoFields(call.arg.items[2])
  /\ ~call.valid

(***************************************************************************)
(* Claims about the todo provider (checked under Spec).                    *)
(***************************************************************************)
\* A step in which saveTodos is called.
SaveStep == saveCalls' = saveCalls + 1

\* A step that ends a turn: the render with the queued value and its effects.
CommitStep == turns' = turns + 1

\* A step in which a mutator is called.
MutatorStep == ops' = ops + 1

\* C6: when the save triggered by a collection change reports a failure
\* with a message, a toast with exactly that message and severity 'warning'
\* is appended; the collection keeps the mutated value; the provider goes on
\* accepting the mutators, whose results are applied at the next commit.
C6_FailureNotifies ==
  /\ [][(SaveStep /\ ~lastSave'.result.success /\ lastSave'.result.error # "")
          => /\ Len(toasts') = Len(toasts) + 1
             /\ SubSeq(toasts', 1, Len(toasts)) = toasts
             /\ toasts'[Len(toasts')].message = lastSave'.result.error
             /\ toasts'[Len(toasts')].type = "warning"
             /\ todos' = lastSave'.arg
             /\ pc' = "idle"]_vars
  /\ [][CommitStep => todos' = queued.todos]_vars
  /\ []((pc = "idle" /\ ~lastSave.result.success /\ ops < MaxOps /\ turnCalls < MaxBatch)
          => (ENABLED AddTodo /\ ENABLED EditTodo /\ ENABLED ToggleTodoCompletion
              /\ ENABLED DeleteTodo))

C6_Witness ==
  /\ pc = "idle"
  /\ turns = 2
  /\ turnCalls = 0
  /\ lastOp.name = "deleteTodo"
  /\ lastSave.result = SaveResult(FALSE, QuotaMessage)
  /\ lastSave.arg = todos
  /\ Len(toasts) = 2
  /\ toasts[1].message = GenericMessage
  /\ toasts[2].message = QuotaMessage
  /\ toasts[2].type = "warning"

\* What the mutator call recorded in `op` computes from `list`.
ResultOf(op, list, id, ms) ==
  CASE op.name = "addTodo" -> addTodo(list, op.title, op.description, id, ms)
    [] op.name = "editTodo" -> editTodo(list, op.id, op.updates)
    [] op.name = "toggleTodoCompletion" -> toggleTodoCompletion(list, op.id)
    [] op.name = "deleteTodo" -> deleteTodo(list, op.id)

\* C7: a mutator called in a turn of its own, its id matching a record or
\* not, causes exactly one call of saveTodos, after the update of the state,
\* with the whole collection the call produced; saveTodos is called at no
\* other time but on mount.
C7_OneSavePerCall ==
  /\ [][MutatorStep
          => /\ queued'.todos = ResultOf(lastOp', todos, uuidv4(uuids'), now)
             /\ saveCalls' = saveCalls]_vars
  /\ [][(CommitStep /\ turnCalls = 1)
          => /\ todos' = queued.todos
             /\ SaveStep
             /\ lastSave'.arg = todos']_vars
  /\ [][saveCalls' # saveCalls
          => \/ CommitStep /\ SaveStep
             \/ pc = "rendered" /\ SaveStep
             \/ pc' = "unmounted"]_vars

C7_Witness ==
  /\ pc = "idle"
  /\ turns = 1
  /\ turnCalls = 0
  /\ lastOp.name = "toggleTodoCompletion"
  /\ lastOp.id = NoSuchId
  /\ Len(todos) = 2
  /\ saveCalls = 2
  /\ lastSave.arg = todos

\* C8: on construction loadTodos() is called exactly once and what it
\* returns is the initial collection as it is: same records, same order,
\* nothing validated or filtered further; the empty sequence when nothing
\* usable is stored.
C8_Hydration ==
  /\ [](pc \in {"rendered", "idle"} => loadCalls = 1)
  /\ [](pc = "rendered" => todos = hydrated)
  /\ [][(pc = "unmounted" /\ pc' = "rendered")
          => /\ \E g \in BOOLEAN, r1 \in BOOLEAN, r2 \in BOOLEAN :
                  /\ hydrated' = loadTodos(store, g, r1, r2).todos
                  /\ store' = loadTodos(store, g, r1, r2).item
             /\ (store.kind # "json" \/ ~isValidTodos(JSONParse(store)))
                  => todos' = <<>>]_vars

C8_Witness ==
  /\ pc = "rendered"
  /\ loadCalls = 1
  /\ Len(hydrated) = 2
  /\ Len(todos) = 2
  /\ todos[1].f.id = todos[2].f.id
  /\ todos[1].f.createdAt = DateOf(0)
  /\ todos[2].f.createdAt = DateOf(1)

\* C9 as stated: between construction and the first mutating operation
\* saveTodos is never called, so after a single addTodo there has been
\* exactly one write.
C9_Original ==
  /\ (pc = "idle" /\ turns = 0 /\ turnCalls = 0) => saveCalls = 0
  /\ (pc = "idle" /\ turns = 1 /\ turnCalls = 0 /\ lastOp.name = "addTodo")
       => saveCalls = 1

\* C9 (amended): construction writes once: the persist effect runs on mount
\* and calls saveTodos exactly once, with the hydrated collection; it is not
\* called again before the first mutating operation, so after a single
\* addTodo there have been exactly two writes.
C9_Amended ==
  /\ pc = "rendered" => saveCalls = 0
  /\ (pc = "idle" /\ turns = 0) => (saveCalls = 1 /\ lastSave.arg = todos)
  /\ (pc = "idle" /\ turns = 1 /\ turnCalls = 0 /\ lastOp.name = "addTodo")
       => (saveCalls = 2 /\ lastSave.arg = todos)

C9_Witness ==
  /\ pc = "idle"
  /\ turns = 1
  /\ turnCalls = 0
  /\ lastOp.name = "addTodo"
  /\ Len(todos) = 3
  /\ saveCalls = 2

\* C10: addTodo(title, description) on the collection C of the current
\* render yields C followed by one new record with that title and
\* description, completed false and an id that no record of C has; the
\* records of C are unchanged and keep their positions.
C10_AddTodo ==
  /\ [][(MutatorStep /\ lastOp'.name = "addTodo")
          => /\ Len(queued'.todos) = Len(todos) + 1
             /\ SubSeq(queued'.todos, 1, Len(todos)) = todos
             /\ queued'.todos[Len(todos) + 1].obj
             /\ queued'.todos[Len(todos) + 1].f.title = Str(lastOp'.title)
             /\ queued'.todos[Len(todos) + 1].f.description = Str(lastOp'.description)
             /\ queued'.todos[Len(todos) + 1].f.completed = Bool(FALSE)
             /\ queued'.todos[Len(todos) + 1].f.id.t = "string"
             /\ \A i \in 1..Len(todos) :
                  todos[i].f.id # queued'.todos[Len(todos) + 1].f.id]_vars
  /\ [][(CommitStep /\ turnCalls = 1 /\ lastOp.name = "addTodo")
          => todos' = queued.todos]_vars

C10_Witness ==
  /\ pc = "idle"
  /\ turns = 1
  /\ turnCalls = 1
  /\ lastOp.name = "addTodo"
  /\ uuids = 2
  /\ Len(todos) = 3
  /\ Len(queued.todos) = 4
  /\ queued.todos[4].f.title = Str(NewTitle)
  /\ queued.todos[4].f.id # todos[3].f.id

\* C11: editTodo(id, updates) on the collection of the current render puts,
\* at the place of every record whose id is `id`, a record that has the
\* fields of `updates` where `updates` has them and the old fields elsewhere;
\* every other record is left as it is; length and order are kept; with no
\* matching record the collection has the records it had.
C11_EditTodo ==
  /\ [][(MutatorStep /\ lastOp'.name = "editTodo")
          => /\ Len(queued'.todos) = Len(todos)
             /\ \A i \in 1..Len(todos) :
                  IF todos[i].f.id = Str(lastOp'.id)
                  THEN /\ queued'.todos[i].obj
                       /\ \A k \in FieldNames :
                            queued'.todos[i].f[k] =
                              IF lastOp'.updates[k] # Absent
                              THEN lastOp'.updates[k]
                              ELSE todos[i].f[k]
                  ELSE queued'.todos[i] = todos[i]
             /\ (\A i \in 1..Len(todos) : todos[i].f.id # Str(lastOp'.id))
                  => queued'.todos = todos]_vars
  /\ [][(CommitStep /\ turnCalls = 1 /\ lastOp.name = "editTodo")
          => todos' = queued.todos]_vars

C11_Witness ==
  /\ pc = "idle"
  /\ turnCalls = 1
  /\ lastOp.name = "editTodo"
  /\ lastOp.id = "2"
  /\ lastOp.updates.title = Str("Edited")
  /\ Len(todos) = 2
  /\ todos[2].f.title = Str("Test Todo")
  /\ queued.todos[1] = todos[1]
  /\ queued.todos[2].f.title = Str("Edited")
  /\ queued.todos[2].f.id = Str("2")
  /\ queued.todos[2].f.createdAt = todos[2].f.createdAt

\* The updates { completed: value }.
CompletedOnly(value) ==
  [k \in FieldNames |-> IF k = "completed" THEN value ELSE Absent]

\* The positions of `list` whose record has the id `id`.
Matching(list, id) == {i \in 1..Len(list) : list[i].f.id = Str(id)}

\* Apart from the records with the id `id`, which have `completed` negated
\* and every other field as before, `new` is `old`.
OnlyCompletedNegated(old, new, id) ==
  /\ Len(new) = Len(old)
  /\ \A i \in 1..Len(old) :
       IF i \in Matching(old, id)
       THEN /\ new[i].obj
            /\ new[i].f.completed = Bool(old[i].f.completed = Bool(FALSE))
            /\ \A k \in FieldNames \ {"completed"} : new[i].f[k] = old[i].f[k]
       ELSE new[i] = old[i]

Without(old, new, gone) ==
  /\ Len(new) = Len(old) - Cardinality(gone)
  /\ \A i \in (1..Len(old)) \ gone :
       new[i - Cardinality({j \in gone : j < i})] = old[i]

\* C13: deleteTodo(id) yields the collection without any record whose id is
\* `id`, the remaining records unchanged; with no matching record the
\* collection has the records it had; once deleteTodo(id) has been called,
\* the next mutator call, in the same turn or in a later one, produces a
\* collection (and so a write) without a record of that id: addTodo, the
\* only way to create a record, gives it a new id.
C13_DeleteTodo ==
  /\ [][(MutatorStep /\ lastOp'.name = "deleteTodo")
          => /\ Without(todos, queued'.todos, Matching(todos, lastOp'.id))
             /\ Matching(queued'.todos, lastOp'.id) = {}
             /\ Matching(todos, lastOp'.id) = {} => queued'.todos = todos]_vars
  /\ [][(CommitStep /\ turnCalls = 1 /\ lastOp.name = "deleteTodo")
          => /\ todos' = queued.todos
             /\ lastSave'.arg = queued.todos]_vars
  /\ [][(MutatorStep /\ lastOp.name = "deleteTodo")
          => Matching(queued'.todos, lastOp.id) = {}]_vars

(***************************************************************************)
(* Claims about the toast provider (checked under ToastSpec).              *)
(***************************************************************************)
\* The values Date.now() can have when showToast is called.
ToastTimes == {a + DefaultDuration * b : a \in 0..MaxTicks, b \in 0..MaxShows}

ActiveIds(list) == {list[i].id : i \in 1..Len(list)}

\* A step in which showToast is called.
ShowStep == calls' = calls + 1

\* A step in which dismissToast is called.
DismissStep ==
  call'.op = "dismissToast" /\ now' = now /\ timers' = timers /\ calls' = calls

\* A step in which a timer callback runs.
TimerStep == call'.op = "timer" /\ Len(timers') = Len(timers) - 1

\* C14: showToast appends its notification at the end of the active list
\* and schedules its removal after the default 5000 ms; a notification
\* leaves the list only when dismissToast is called with its id or when a
\* timer runs after its duration has elapsed since its creation; every
\* notification eventually leaves the list.
C14_ToastLifetime ==
  /\ [][ShowStep
          => /\ Len(toasts') = Len(toasts) + 1
             /\ SubSeq(toasts', 1, Len(toasts)) = toasts
             /\ toasts'[Len(toasts')].id = ToString(now)
             /\ toasts'[Len(toasts')].duration = DefaultDuration
             /\ Len(timers') = Len(timers) + 1
             /\ timers'[Len(timers')] =
                  [id |-> ToString(now), due |-> now + DefaultDuration]]_vars
  /\ [][\A i \in 1..Len(toasts) :
          toasts[i].id \notin ActiveIds(toasts')
            => \/ DismissStep /\ call'.arg = NonArr(Str(toasts[i].id))
               \/ /\ TimerStep
                  /\ \E ms \in ToastTimes :
                       /\ ToString(ms) = toasts[i].id
                       /\ ms + toasts[i].duration <= now]_vars
  /\ [][Len(toasts') < Len(toasts) => (DismissStep \/ TimerStep)]_vars
  /\ \A ms \in ToastTimes :
       (ToString(ms) \in ActiveIds(toasts)) ~> (ToString(ms) \notin ActiveIds(toasts))

C14_Witness ==
  /\ pc = "toasts"
  /\ calls = 2
  /\ now = DefaultDuration
  /\ call.op = "timer"
  /\ call.arg = NonArr(Str("0"))
  /\ Len(toasts) = 1
  /\ toasts[1].id = ToString(DefaultDuration)
  /\ Len(timers) = 1
  /\ timers[1].due = 2 * DefaultDuration

\* The positions of `list` whose toast has the id `id`.
MatchingToasts(list, id) == {i \in 1..Len(list) : list[i].id = id}

\* C15: dismissToast(id) removes the toasts with that id at once, whether
\* their timer is still pending or not, and leaves the other toasts as they
\* are and in their order; it is idempotent: with no active toast of that
\* id, dismissToast(id) and the callback of a timer set for that id leave
\* the active list unchanged.
C15_Dismiss ==
  /\ [][DismissStep
          => /\ Without(toasts, toasts', MatchingToasts(toasts, call'.arg.v.s))
             /\ MatchingToasts(toasts', call'.arg.v.s) = {}
             /\ WithoutToast(toasts', call'.arg.v.s) = toasts'
             /\ MatchingToasts(toasts, call'.arg.v.s) = {} => toasts' = toasts]_vars
  /\ [][(TimerStep /\ MatchingToasts(toasts, call'.arg.v.s) = {})
          => toasts' = toasts]_vars

C15_Witness ==
  /\ pc = "toasts"
  /\ calls = 3
  /\ call.op = "timer"
  /\ call.arg = NonArr(Str("0"))
  /\ prev = NoCall
  /\ now = DefaultDuration + 1
  /\ Len(timers) = 2
  /\ Len(toasts) = 2
  /\ toasts[1].id = "1"
  /\ toasts[2].id = ToString(DefaultDuration + 1)

(***************************************************************************)
(* Claims about the behaviour of the todo provider (checked under Spec).   *)
(***************************************************************************)
\* C16: in every state the provider reaches by hydration from a stored
\* value followed by calls of the four mutators, no two records of the
\* collection have the same id.
C16_UniqueIds ==
  pc \in {"rendered", "idle"}
  => \A i, j \in 1..Len(todos) : i # j => todos[i].f.id # todos[j].f.id

\* The records of `old` that are not at the positions `gone` are in `new`
\* in the order they had, before every other record of `new`; a record
\* whose id is `id` may have been replaced by its update.
OrderKept(old, new, gone, id) ==
  /\ Len(new) >= Len(old) - Cardinality(gone)
  /\ \A i \in (1..Len(old)) \ gone :
       LET p == i - Cardinality({j \in gone : j < i}) IN
         new[p] = old[i] \/ old[i].f.id = Str(id)

\* C17: the collection is in insertion order: hydration takes the records
\* in the order they are stored; every mutator leaves the records that stay
\* in the order they had, deleteTodo dropping the records of its id only,
\* an added record coming after all of them; every render takes over the
\* result of a mutator as it is.
C17_InsertionOrder ==
  /\ [][(pc = "unmounted" /\ pc' = "rendered")
          => \/ todos' = <<>>
             \/ /\ store.kind = "json"
                /\ Len(todos') = Len(store.doc.items)
                /\ \A i \in 1..Len(todos') :
                     /\ todos'[i].f.id = store.doc.items[i].f.id
                     /\ todos'[i].f.completed = store.doc.items[i].f.completed]_vars
  /\ [][MutatorStep
          => /\ OrderKept(todos, queued'.todos,
                          IF lastOp'.name = "deleteTodo"
                          THEN Matching(todos, lastOp'.id) ELSE {},
                          IF lastOp'.name \in {"editTodo", "toggleTodoCompletion"}
                          THEN lastOp'.id ELSE "")
             /\ Len(queued'.todos) =
                  CASE lastOp'.name = "addTodo" -> Len(todos) + 1
                    [] lastOp'.name = "deleteTodo" ->
                         Len(todos) - Cardinality(Matching(todos, lastOp'.id))
                    [] OTHER -> Len(todos)]_vars
  /\ [][CommitStep => todos' = queued.todos]_vars

C17_Witness ==
  /\ pc = "idle"
  /\ turns = 1
  /\ turnCalls = 1
  /\ lastOp.name = "deleteTodo"
  /\ lastOp.id = "1"
  /\ Len(todos) = 3
  /\ todos[1].f.id = Str("1")
  /\ todos[2].f.id = Str("2")
  /\ todos[3].f.id = Str(uuidv4(1))
  /\ queued.todos = <<todos[2], todos[3]>>

\* C18: inside one synchronous turn each mutator call is applied to the
\* result of the call before it, so the collection after the turn, and the
\* write of the turn, is what the calls give one after another; no call's
\* effect is lost.
C18_SequentialBatch ==
  /\ [][(MutatorStep /\ turnCalls >= 1)
          => queued'.todos = ResultOf(lastOp', queued.todos, uuidv4(uuids'), now)]_vars
  /\ [][CommitStep
          => /\ todos' = queued.todos
             /\ lastSave'.arg = queued.todos]_vars

\* C19: any two notifications have different ids, also when no time passes
\* between the calls of showToast that create them, so dismissToast and the
\* timer callback, which remove by id, each remove one notification and
\* never another one that is still within its duration.
C19_ToastsIndependent ==
  /\ [](\A i, j \in 1..Len(toasts) : i # j => toasts[i].id # toasts[j].id)
  /\ [][(pc' = "idle" /\ Len(toasts') < Len(toasts))
          => Len(toasts') = Len(toasts) - 1]_vars

\* C20: saveTodos is called on mount and at the render that ends a turn
\* with a mutator call, once each, and at no other time: a change of the
\* toast list by dismissToast or by a timer leaves the collection, its
\* array and the store as they are; a failed save adds exactly one toast
\* and a successful one none; so the saves of a provider number one more
\* than its committed turns, and the toasts no more than the saves, however
\* often the store fails.
C20_NoFeedback ==
  /\ [][(saveCalls' # saveCalls /\ pc' # "unmounted")
          => /\ saveCalls' = saveCalls + 1
             /\ (pc = "rendered" \/ (CommitStep /\ turnCalls >= 1))
             /\ Len(toasts') =
                  Len(toasts) + (IF lastSave'.result.success THEN 0 ELSE 1)
             /\ Len(timers') =
                  Len(timers) + (IF lastSave'.result.success THEN 0 ELSE 1)]_vars
  /\ [][(toasts' # toasts /\ saveCalls' = saveCalls /\ pc' # "unmounted")
          => /\ Len(toasts') < Len(toasts)
             /\ todos' = todos
             /\ todosRef' = todosRef
             /\ queued' = queued
             /\ store' = store]_vars
  /\ [][(Len(toasts') < Len(toasts) /\ pc' # "unmounted")
          => saveCalls' = saveCalls]_vars
  /\ [](pc = "idle" => /\ saveCalls = turns + 1
                       /\ Len(toasts) <= Len(timers)
                       /\ Len(timers) <= saveCalls)

C20_Witness ==
  /\ pc = "idle"
  /\ turns = 2
  /\ turnCalls = 0
  /\ saveCalls = 3
  /\ ~lastSave.result.success
  /\ Len(timers) = 3
  /\ Len(toasts) = 1
  /\ now = 1
  /\ toasts[1].id = "1"

\* C21: a reload never discards saved data: whenever the last saveTodos of
\* the provider succeeded, the key holds a value that isValidTodos accepts,
\* and the loadTodos() of the next construction returns the records that
\* were saved, in order, and leaves the key as it is.
C21_ReloadKeepsData ==
  (pc = "idle" /\ lastSave.result.success)
  => /\ store.kind = "json"
     /\ isValidTodos(JSONParse(store))
     /\ SameTodos(lastSave.arg, loadTodos(store, FALSE, FALSE, FALSE).todos)
     /\ loadTodos(store, FALSE, FALSE, FALSE).item = store

====
